---- MODULE Spec2Model ----
(***************************************************************************)
(* Model of sprawl's crawl engine: build_graph / edit_graph (src/lib.rs)   *)
(* and the depth-limited discovery closure of the sprawl binary.           *)
(*                                                                         *)
(* A crawl task is one invocation of edit_graph.  It is identified by the  *)
(* path of addresses from the seed to its own address (its call chain), so *)
(* its `parent` argument is the last element of the path; its `depth`      *)
(* argument is a field of the task.  A task takes one step from one await  *)
(* point to the next.                                                      *)
(*                                                                         *)
(* Addresses are opaque, so pages introduce previously unmentioned         *)
(* addresses in increasing order (one representative per renaming).        *)
(***************************************************************************)
EXTENDS Integers, Sequences, FiniteSets, TLC

\* ---- bounds of the model ----
\* addresses that exist, links on all pages together, largest depth cut-off
NumAddr == 4
MaxLinks == 4
MaxDepth == 2

\* ---- addresses, fetch results ----
Addr == 0 .. (NumAddr - 1)
Seed == 0

NoTask == << >>
RootTask == << Seed >>

NoRes == [tag |-> "none", body |-> {}]
Err == [tag |-> "err", body |-> {}]
Ok(S) == [tag |-> "ok", body |-> S]

None == [some |-> FALSE, set |-> {}]
Some(S) == [some |-> TRUE, set |-> S]

UnknownPage == [st |-> "unknown", links |-> {}]
DownPage == [st |-> "down", links |-> {}]
UpPage(S) == [st |-> "up", links |-> S]

Policies == {[limited |-> FALSE, depth |-> 0]}
            \cup {[limited |-> TRUE, depth |-> d] : d \in 0 .. MaxDepth}

VARIABLES
    nodes,      \* the RwLock-protected HashMap<Url, Result<String, String>>
    edges,      \* the Mutex-protected HashSet<(Url, Url)>
    tasks,      \* edit_graph invocations: path |-> [pc, depth, res, children]
    rw,         \* state of the RwLock: [readers, writer]
    mu,         \* holder of the edges Mutex, or NoTask
    web,        \* what the network serves at each address, fixed when first fetched
    policy,     \* the get_children closure: its depth cut-off
    fetches,    \* number of get_webpage calls per address
    policyCalls,\* number of get_children calls per address
    panicked,   \* "no", or which panic unwound the crawl
    graph       \* result of build_graph: [built, nodes, edges]

vars == << nodes, edges, tasks, rw, mu, web, policy, fetches, policyCalls, panicked, graph >>

\* ---- helpers ----
Last(t) == t[Len(t)]
Depth(t) == tasks[t].depth
Parent(t) == SubSeq(t, 1, Len(t) - 1)
TaskIds == DOMAIN tasks
ChildTasks(t) == {u \in TaskIds : Len(u) = Len(t) + 1 /\ SubSeq(u, 1, Len(t)) = t}
Visited == DOMAIN nodes

RECURSIVE SumLinks(_, _)
SumLinks(w, S) ==
    IF S = {} THEN 0
    ELSE LET a == CHOOSE x \in S : TRUE
         IN Cardinality(w[a].links) + SumLinks(w, S \ {a})

LinksUsed(w) == SumLinks(w, Addr)
Mentioned(w) == {Seed} \cup UNION {w[a].links : a \in Addr}

\* pages a first fetch may find: within the link budget, and naming unmentioned
\* addresses in increasing order
PageChoices(w) ==
    LET room == MaxLinks - LinksUsed(w)
        fresh == Addr \ Mentioned(w)
    IN {S \in SUBSET Addr :
           /\ Cardinality(S) <= room
           /\ \A x \in S \cap fresh : \A y \in fresh : y < x => y \in S}

\* the discovery closure: sprawl.rs main (None from the depth cut-off on) or
\* tests::get_all_children (never None).  A body is modelled by the set of
\* addresses the closure extracts from it (after its regex filter, fragment
\* stripping and child limit); the text of an error is not modelled.
GetChildren(url, body, depth) ==
    IF policy.limited /\ depth >= policy.depth THEN None ELSE Some(body)

\* ---- initial state: build_graph before the top-level edit_graph is polled ----
Init ==
    /\ nodes = << >>
    /\ edges = {}
    /\ tasks = (RootTask :> [pc |-> "start", depth |-> 0, res |-> NoRes, children |-> {}])
    /\ rw = [readers |-> {}, writer |-> NoTask]
    /\ mu = NoTask
    /\ web = [a \in Addr |-> UnknownPage]
    /\ policy \in Policies
    /\ fetches = [a \in Addr |-> 0]
    /\ policyCalls = [a \in Addr |-> 0]
    /\ panicked = "no"
    /\ graph = [built |-> FALSE, nodes |-> << >>, edges |-> << >>]

Running == panicked = "no" /\ ~graph.built

\* The futures of edit_graph are not Send (line 35) and join_all polls them
\* within the one task that awaits build_graph: a task runs from one await to
\* the next on the same thread, and no await lies between taking a guard and
\* dropping it.  So a step begins where an awaited lock is granted (or the
\* fetch returns, or the children have returned) and runs to the next await.

\* line 45: the read guard is a temporary of the if condition
ReadGuardAfter(t) == rw.readers

\* line 45: contains_key under the read guard
AlreadyPresentNever(t) == FALSE
AlreadyPresentOkOnly(t) == Last(t) \in Visited /\ nodes[Last(t)].tag = "ok"
AlreadyPresent(t) == Last(t) \in Visited

\* lines 45-48: nodes.read().await is granted (no writer); contains_key under
\* the read guard; the guard is dropped; then either return or call
\* get_webpage (the request is issued, the task suspends)
ReadCheck(t) ==
    /\ Running
    /\ tasks[t].pc = "start"
    /\ rw.writer = NoTask
    /\ rw' = [rw EXCEPT !.readers = ReadGuardAfter(t)]
    /\ IF AlreadyPresent(t)
         THEN /\ tasks' = [tasks EXCEPT ![t].pc = "done"]
              /\ UNCHANGED fetches
         ELSE /\ tasks' = [tasks EXCEPT ![t].pc = "fetching"]
              /\ fetches' = [fetches EXCEPT ![Last(t)] = @ + 1]
    /\ UNCHANGED << nodes, edges, mu, web, policy, policyCalls, panicked, graph >>

\* lines 10-12, 48-50: get_webpage returns; the error is mapped to its text.
\* The page behind an address is fixed by the first fetch that sees it.  With
\* flaky, any request may also fail although the page is up; without it the
\* outcome of a fetch is a function of the address.
FetchReturn(t, flaky) ==
    /\ Running
    /\ tasks[t].pc = "fetching"
    /\ LET a == Last(t) IN
       \/ /\ flaky \/ web[a].st # "up"
          /\ web' = IF flaky THEN web ELSE [web EXCEPT ![a] = DownPage]
          /\ tasks' = [tasks EXCEPT ![t].pc = "write_wait", ![t].res = Err]
       \/ /\ web[a].st = "up"
          /\ UNCHANGED web
          /\ tasks' = [tasks EXCEPT ![t].pc = "write_wait", ![t].res = Ok(web[a].links)]
       \/ /\ web[a].st = "unknown"
          /\ \E S \in PageChoices(web) :
                /\ web' = [web EXCEPT ![a] = UpPage(S)]
                /\ tasks' = [tasks EXCEPT ![t].pc = "write_wait", ![t].res = Ok(S)]
    /\ UNCHANGED << nodes, edges, rw, mu, policy, fetches, policyCalls, panicked, graph >>

\* line 53: the second contains_key, under the write guard
AlreadySettledNever(t) == FALSE
AlreadySettled(t) == Last(t) \in Visited

\* line 57: write.insert(parent.clone(), res.clone())
SettledOnlyOk(t) ==
    IF tasks[t].res.tag = "ok" THEN (Last(t) :> tasks[t].res) @@ nodes ELSE nodes
SettledAfterChildren(t) == nodes
SettledAsFailure(t) == (Last(t) :> Err) @@ nodes
Settled(t) == (Last(t) :> tasks[t].res) @@ nodes

\* lines 54, 58: the write guard is dropped on return and before get_children
WriteGuardKept(t, recursing) == IF recursing THEN t ELSE NoTask
WriteGuardAfter(t, recursing) == NoTask

\* lines 52-62: nodes.write().await is granted (no reader, no writer); return
\* if the address was settled meanwhile; else insert the outcome, drop the
\* guard and, for a successful fetch, ask get_children.  Either way res is
\* consumed here (dropped, or moved into the map).
WriteCheck(t) ==
    /\ Running
    /\ tasks[t].pc = "write_wait"
    /\ rw.writer = NoTask
    /\ rw.readers = {}
    /\ LET a == Last(t)
           res == tasks[t].res
           kids == GetChildren(a, res.body, Depth(t))
           recursing == ~AlreadySettled(t) /\ res.tag = "ok" /\ kids.some
       IN /\ rw' = [rw EXCEPT !.writer = WriteGuardAfter(t, recursing)]
          /\ IF AlreadySettled(t)
              THEN /\ tasks' = [tasks EXCEPT ![t].pc = "done", ![t].res = NoRes]
                   /\ UNCHANGED << nodes, policyCalls >>
              ELSE /\ nodes' = Settled(t)
                   /\ IF res.tag = "ok"
                        THEN /\ policyCalls' = [policyCalls EXCEPT ![a] = @ + 1]
                             /\ IF kids.some
                                  THEN tasks' = [tasks EXCEPT ![t].pc = "edges_wait",
                                                              ![t].res = NoRes,
                                                              ![t].children = kids.set]
                                  ELSE tasks' = [tasks EXCEPT ![t].pc = "done",
                                                              ![t].res = NoRes]
                        ELSE /\ tasks' = [tasks EXCEPT ![t].pc = "done", ![t].res = NoRes]
                             /\ UNCHANGED policyCalls
    /\ UNCHANGED << edges, mu, web, policy, fetches, panicked, graph >>

\* line 68: drop(write) on the edges guard
EdgesGuardKept(t) == t
EdgesGuardAfter(t) == NoTask

\* lines 69-78: one edit_graph future per child, at depth + 1, not yet polled
SpawnedSameDepth(t) ==
    [u \in {Append(t, c) : c \in tasks[t].children} |->
        [pc |-> "start", depth |-> tasks[t].depth, res |-> NoRes, children |-> {}]]
Spawned(t) ==
    [u \in {Append(t, c) : c \in tasks[t].children} |->
        [pc |-> "start", depth |-> tasks[t].depth + 1, res |-> NoRes, children |-> {}]]

\* lines 64-65: the pairs (parent, child) handed to write.insert
NewEdgesUnvisitedOnly(t) == {<< Last(t), c >> : c \in tasks[t].children \ Visited}
NewEdges(t) == {<< Last(t), c >> : c \in tasks[t].children}

\* lines 63-79: edges.lock().await is granted; insert one edge per child,
\* asserting each is new; drop the guard; hand the children's futures to
\* join_all.  A failed assertion unwinds the whole crawl with the edges
\* inserted before it (in HashSet order); unwinding drops the guard.
EdgesInsert(t) ==
    /\ Running
    /\ tasks[t].pc = "edges_wait"
    /\ mu = NoTask
    /\ mu' = EdgesGuardAfter(t)
    /\ LET new == NewEdges(t)
       IN IF new \cap edges = {}
            THEN /\ edges' = edges \cup new
                 /\ tasks' = Spawned(t) @@ [tasks EXCEPT ![t].pc = "joining",
                                                          ![t].children = {}]
                 /\ UNCHANGED panicked
            ELSE /\ \E done \in SUBSET (new \ edges) : edges' = edges \cup done
                 /\ tasks' = [tasks EXCEPT ![t].pc = "panicked"]
                 /\ panicked' = "edge"
    /\ UNCHANGED << nodes, rw, web, policy, fetches, policyCalls, graph >>

\* line 79: join_all(...).await completes when every child future has returned
JoinNoWait(t) ==
    /\ Running
    /\ tasks[t].pc = "joining"
    /\ tasks' = [tasks EXCEPT ![t].pc = "done"]
    /\ UNCHANGED << nodes, edges, rw, mu, web, policy, fetches, policyCalls, panicked, graph >>

Join(t) ==
    /\ Running
    /\ tasks[t].pc = "joining"
    /\ \A u \in ChildTasks(t) : tasks[u].pc = "done"
    /\ tasks' = [tasks EXCEPT ![t].pc = "done"]
    /\ UNCHANGED << nodes, edges, rw, mu, web, policy, fetches, policyCalls, panicked, graph >>

\* ---- build_graph, after the top-level edit_graph has returned ----

RECURSIVE SortedSeq(_)
SortedSeq(S) ==
    IF S = {} THEN << >>
    ELSE LET m == CHOOSE x \in S : \A y \in S : x <= y
         IN << m >> \o SortedSeq(S \ {m})

\* lines 25-28: graph.add_node per registry key; indices maps each key to its NodeIndex
GraphNodesOkOnly == SortedSeq({a \in Visited : nodes[a].tag = "ok"})
GraphNodes == SortedSeq(Visited)
Indices ==
    [a \in {GraphNodes[i] : i \in 1 .. Len(GraphNodes)} |->
        (CHOOSE i \in 1 .. Len(GraphNodes) : GraphNodes[i] = a) - 1]

RECURSIVE EdgeSeq(_)
EdgeSeq(E) ==
    IF E = {} THEN << >>
    ELSE LET e == CHOOSE x \in E : \A y \in E :
                      x[1] < y[1] \/ (x[1] = y[1] /\ x[2] <= y[2])
         IN << << Indices[e[1]], Indices[e[2]] >> >> \o EdgeSeq(E \ {e})

\* lines 22-32: into_inner, one node per key, one edge per pair; indices[&url]
\* panics on a url that is no key of the registry
Assemble ==
    /\ Running
    /\ tasks[RootTask].pc = "done"
    /\ IF \A e \in edges : e[1] \in DOMAIN Indices /\ e[2] \in DOMAIN Indices
         THEN /\ graph' = [built |-> TRUE, nodes |-> GraphNodes, edges |-> EdgeSeq(edges)]
              /\ UNCHANGED panicked
         ELSE /\ panicked' = "index"
              /\ UNCHANGED graph
    /\ UNCHANGED << nodes, edges, tasks, rw, mu, web, policy, fetches, policyCalls >>

\* ---- specifications ----

\* any request may fail
Next ==
    \/ \E t \in TaskIds : ReadCheck(t)
    \/ \E t \in TaskIds : FetchReturn(t, TRUE)
    \/ \E t \in TaskIds : WriteCheck(t)
    \/ \E t \in TaskIds : EdgesInsert(t)
    \/ \E t \in TaskIds : Join(t)
    \/ Assemble

Spec == Init /\ [][Next]_vars

\* the outcome of a fetch is a function of the address
NextDet ==
    \/ \E t \in TaskIds : ReadCheck(t)
    \/ \E t \in TaskIds : FetchReturn(t, FALSE)
    \/ \E t \in TaskIds : WriteCheck(t)
    \/ \E t \in TaskIds : EdgesInsert(t)
    \/ \E t \in TaskIds : Join(t)
    \/ Assemble

SpecDet == Init /\ [][NextDet]_vars

\* the executor keeps polling a task that can proceed, and every fetch returns
FairSpec == Spec /\ WF_vars(Next)

\* ---- properties ----

TasksFor(a) == {t \in TaskIds : Last(t) = a}
AllDone == \A t \in TaskIds : tasks[t].pc = "done"

\* C1: the Fetch Port is invoked at most once per address, even when the
\* address is discovered concurrently by several parents.
FetchedAtMostOnce == \A a \in Addr : fetches[a] <= 1

\* C2: a registry entry, once present, keeps its key and outcome for ever, and
\* an address becomes present by the step of exactly one task: a task for that
\* address leaving its write-lock check.
RegistryEntriesFinal ==
    [][/\ \A a \in DOMAIN nodes : a \in DOMAIN nodes' /\ nodes'[a] = nodes[a]
       /\ \A a \in (DOMAIN nodes') \ DOMAIN nodes :
             Cardinality({t \in TasksFor(a) :
                 tasks[t].pc = "write_wait" /\ tasks'[t].pc # "write_wait"}) = 1]_vars

\* C2 witness: two tasks fetched the same address and both have passed the
\* write-lock check; the address is settled.
TwoWritersOneEntry ==
    \E a \in Visited :
        /\ fetches[a] >= 2
        /\ \A t \in TasksFor(a) : tasks[t].pc \in {"done", "joining", "edges_wait"}

\* C3: no task is ever about to insert a (parent, child) pair that
\* is already in the edge set, and the duplicate-edge assertion never fails.
NoDuplicateEdgeAttempt ==
    /\ panicked # "edge"
    /\ \A t \in TaskIds :
          tasks[t].pc = "edges_wait" =>
              {<< Last(t), c >> : c \in tasks[t].children} \cap edges = {}

\* C3 witness: a finished crawl of a cyclic structure in which one child was
\* discovered by two parents.
SharedChildInCycle ==
    /\ graph.built
    /\ \E a \in Addr, b \in Addr, c \in Addr :
          /\ a # b
          /\ {<< a, c >>, << b, c >>, << c, a >>} \subseteq edges

\* C4: once the top-level crawl has returned, both endpoints of every edge and
\* the address of every task ever started are keys of the registry, and the
\* assembler's index lookup has not failed.
NoDanglingAfterCrawl ==
    tasks[RootTask].pc = "done" =>
        /\ \A e \in edges : e[1] \in Visited /\ e[2] \in Visited
        /\ \A t \in TaskIds : Last(t) \in Visited
        /\ panicked # "index"

\* C4 witness: the graph was assembled from a crawl with an edge to an address
\* whose fetch failed.
AssembledWithFailedChild ==
    /\ graph.built
    /\ \E e \in edges : nodes[e[2]].tag = "err"

\* C5: with a discovery policy that declines from some depth on, and fetches
\* that return, a fairly scheduled crawl ends: every task returns and the
\* graph is assembled.
CrawlTerminates == policy.limited => <>graph.built

\* C5 witness: a depth-limited crawl of a structure with a cycle has ended.
LimitedCyclicCrawlEnded ==
    /\ graph.built
    /\ policy.limited
    /\ \E a \in Addr, b \in Addr : a # b /\ {<< a, b >>, << b, a >>} \subseteq edges

\* what the network serves: the links of the pages seen so far
RECURSIVE LinkClosure(_)
LinkClosure(S) ==
    LET n == S \cup UNION {web[x].links : x \in S}
    IN IF n = S THEN S ELSE LinkClosure(n)

OnCycle(a) == a \in LinkClosure(web[a].links)

RECURSIVE Level(_)
Level(k) ==
    IF k = 0 THEN {Seed}
    ELSE LET P == Level(k - 1) IN P \cup UNION {web[x].links : x \in P}

\* C6: after a crawl with a policy that never declines, every address on a
\* cycle of links was fetched exactly once and is settled in the registry.
CycleNodesFetchedOnce ==
    (graph.built /\ ~policy.limited) =>
        \A a \in Addr : OnCycle(a) => fetches[a] = 1 /\ a \in Visited

\* C7: after a crawl with depth limit L and fetch outcomes that are a function
\* of the address, every address within L links of the seed is in the registry.
WithinDepthSettled ==
    (graph.built /\ policy.limited) => Level(policy.depth) \subseteq Visited

\* C8: a fetch that failed is recorded: the task that leaves its write-lock
\* check with a failed result leaves the address settled as a Failure.
FailedFetchRecorded ==
    [][\A t \in TaskIds :
          (tasks[t].pc = "write_wait" /\ tasks[t].res.tag = "err" /\ tasks'[t].pc = "done")
              => (Last(t) \in DOMAIN nodes' /\ nodes'[Last(t)].tag = "err")]_vars

\* C9: a task has returned only if every child it spawned has returned; the
\* top-level crawl has returned, and the graph is assembled, only when no task
\* is running or holds a lock, and the assembled graph is that of the registry
\* and edge set as they stand.
JoinBeforeReturn ==
    /\ \A t \in TaskIds :
          tasks[t].pc = "done" => \A u \in ChildTasks(t) : tasks[u].pc = "done"
    /\ tasks[RootTask].pc = "done" => AllDone /\ rw.writer = NoTask /\ rw.readers = {} /\ mu = NoTask
    /\ graph.built =>
          /\ tasks[RootTask].pc = "done"
          /\ graph.nodes = GraphNodes
          /\ graph.edges = EdgeSeq(edges)

\* C9 witness: the graph was assembled after a crawl three tasks deep.
AssembledAfterNestedJoins ==
    /\ graph.built
    /\ \E t \in TaskIds : Len(t) >= 3 /\ ChildTasks(Parent(t)) # {t}

\* C10: a task other than the top-level one exists only if its parent task has
\* fetched its own address successfully, settled it, and got the task's address
\* from the discovery policy; the parent is then waiting for it or has returned.
CausalOrder ==
    \A t \in TaskIds :
        t # RootTask =>
            LET p == Parent(t)
                a == Last(p)
            IN /\ p \in TaskIds
               /\ tasks[p].pc \in {"joining", "done"}
               /\ fetches[a] >= 1
               /\ a \in Visited
               /\ nodes[a].tag = "ok"
               /\ GetChildren(a, nodes[a].body, Depth(p)).some
               /\ Last(t) \in GetChildren(a, nodes[a].body, Depth(p)).set

\* C10 witness: a grandchild of the seed is being fetched.
GrandchildFetching ==
    \E t \in TaskIds : Len(t) = 3 /\ tasks[t].pc = "fetching" /\ Last(t) \notin Visited

\* the addresses a complete crawl has to reach, and the links it has to record
Reachable == LinkClosure({Seed})
ReachableLinks == {e \in Reachable \X Addr : e[2] \in web[e[1]].links}

\* C11: with fetch outcomes that are a function of the address and a policy
\* that returns every link at every depth, the crawl ends in one result: the
\* registry holds exactly the addresses reachable from the seed through links
\* of pages that were served, each with the outcome the network gives it, and
\* the edge set is exactly the links of those pages.
ResultIndependentOfInterleaving ==
    (tasks[RootTask].pc = "done" /\ ~policy.limited) =>
        /\ Visited = Reachable
        /\ \A a \in Visited :
              nodes[a] = IF web[a].st = "up" THEN Ok(web[a].links) ELSE Err
        /\ edges = ReachableLinks

\* C11 witness: the cycle of two (seed -> A, A -> seed) was crawled and gave
\* 2 nodes and 2 edges.
CycleOfTwoAssembled ==
    /\ graph.built
    /\ ~policy.limited
    /\ Len(graph.nodes) = 2
    /\ edges = {<< Seed, 1 >>, << 1, Seed >>}
    /\ Len(graph.edges) = 2

\* the address pair a graph edge connects (NodeIndex is zero-based)
EdgeAddrs(e) == << graph.nodes[e[1] + 1], graph.nodes[e[2] + 1] >>

\* C12: the assembled graph has one node per registry key, failed addresses
\* included, and one edge per recorded pair, between the nodes of that pair's
\* addresses: as many nodes as registry entries, as many edges as pairs.
GraphMatchesRegistry ==
    graph.built =>
        /\ Len(graph.nodes) = Cardinality(Visited)
        /\ {graph.nodes[i] : i \in 1 .. Len(graph.nodes)} = Visited
        /\ Len(graph.edges) = Cardinality(edges)
        /\ {EdgeAddrs(graph.edges[i]) : i \in 1 .. Len(graph.edges)} = edges

\* C12 witness: a graph of three nodes or more, one of them an address whose
\* fetch failed, and two edges or more.
AssembledWithFailureNode ==
    /\ graph.built
    /\ Len(graph.nodes) >= 3
    /\ Len(graph.edges) >= 2
    /\ \E i \in 1 .. Len(graph.nodes) : nodes[graph.nodes[i]].tag = "err"

\* C13: in every reachable state, the parent of each recorded edge has a
\* registry entry, and that entry is a Success.
EdgeParentSettledOk ==
    \A e \in edges : e[1] \in Visited /\ nodes[e[1]].tag = "ok"

\* C13 witness: an edge is recorded whose child has no registry entry yet, while
\* its parent has its Success entry.
EdgeToUnsettledChild ==
    \E e \in edges :
        /\ e[2] \notin Visited
        /\ e[1] \in Visited
        /\ nodes[e[1]].tag = "ok"

\* the addresses within k recorded edges of the seed
RECURSIVE EdgeLevel(_)
EdgeLevel(k) ==
    IF k = 0 THEN {Seed}
    ELSE LET prev == EdgeLevel(k - 1)
         IN prev \cup {e[2] : e \in {x \in edges : x[1] \in prev}}

\* C14: the seed's task runs at depth 0 and every child's task at its parent's
\* depth plus 1; so with a policy that returns no children when depth >= L, no
\* task runs at a depth above L and every registry address is within L recorded
\* edges of the seed (for L = 0 the registry holds no address but the seed).
DepthBounded ==
    /\ tasks[RootTask].depth = 0
    /\ \A t \in TaskIds \ {RootTask} : tasks[t].depth = tasks[Parent(t)].depth + 1
    /\ policy.limited =>
          /\ \A t \in TaskIds : tasks[t].depth <= policy.depth
          /\ Visited \subseteq EdgeLevel(policy.depth)

\* C14 witness: under the limit L = MaxDepth, a task at depth L has settled a
\* page that has links, the policy returned no children for it, and its address
\* is not within L - 1 recorded edges of the seed.
SettledAtLimit ==
    /\ policy.limited
    /\ policy.depth = MaxDepth
    /\ \E t \in TaskIds :
          /\ tasks[t].depth = MaxDepth
          /\ tasks[t].pc = "done"
          /\ Last(t) \in Visited
          /\ nodes[Last(t)].tag = "ok"
          /\ nodes[Last(t)].body # {}
          /\ policyCalls[Last(t)] = 1
          /\ Last(t) \notin EdgeLevel(MaxDepth - 1)

\* a step in which the policy is called for address a
PolicyCalledFor(a) == policyCalls'[a] # policyCalls[a]

\* a step in which task t leaves its write-lock check having found its address
\* already present
LosesAtWriteCheck(t) ==
    /\ tasks[t].pc = "write_wait"
    /\ tasks'[t].pc # "write_wait"
    /\ Last(t) \in Visited

\* C15: the policy is called at most once per address, and only in the step of
\* the task that inserts the address's entry, with a Success; a task that finds
\* its address present at the write-lock check drops its result and returns,
\* recording no edge, spawning no task and calling no policy.
PolicyOncePerAddress ==
    /\ [](\A a \in Addr : policyCalls[a] <= 1)
    /\ [][/\ \A a \in Addr :
               PolicyCalledFor(a) =>
                   \E t \in TasksFor(a) :
                       /\ tasks[t].pc = "write_wait"
                       /\ a \notin Visited
                       /\ a \in DOMAIN nodes'
                       /\ nodes'[a] = tasks[t].res
                       /\ nodes'[a].tag = "ok"
                       /\ policyCalls'[a] = 1
          /\ \A t \in TaskIds :
               LosesAtWriteCheck(t) =>
                   /\ tasks'[t] = [tasks[t] EXCEPT !.pc = "done", !.res = NoRes]
                   /\ nodes' = nodes
                   /\ edges' = edges
                   /\ policyCalls' = policyCalls
                   /\ DOMAIN tasks' = DOMAIN tasks]_vars

\* C15 witness: two tasks fetched the same page, which has links; one inserted
\* it, got its children from the policy and spawned them, the other found it
\* present at its write-lock check and returned with no child.
LoserDiscarded ==
    \E a \in Addr : \E t, u \in TasksFor(a) :
        /\ t # u
        /\ TasksFor(a) = {t, u}
        /\ fetches[a] = 2
        /\ policyCalls[a] = 1
        /\ nodes[a].tag = "ok"
        /\ ChildTasks(t) # {}
        /\ ChildTasks(u) = {}
        /\ tasks[u].pc = "done"
        /\ edges \cap ({a} \X Addr) = {a} \X nodes[a].body

\* a step of a task that has not run yet, for an address that has an entry
StartsOnPresent(t) ==
    /\ tasks[t].pc = "start"
    /\ Last(t) \in Visited
    /\ tasks'[t] # tasks[t]

\* C16: a task started for an address that has a registry entry, Success or
\* Failure, returns at once and changes nothing else: no fetch, no change to the
\* registry or the edge set, no policy call, no new task.  A fetch is never
\* issued for an address that has an entry, so a Failure is not retried.
PresentAddressSkipped ==
    [][/\ \A t \in TaskIds :
               StartsOnPresent(t) =>
                   /\ tasks' = [tasks EXCEPT ![t].pc = "done"]
                   /\ fetches' = fetches
                   /\ nodes' = nodes
                   /\ edges' = edges
                   /\ policyCalls' = policyCalls
                   /\ web' = web
          /\ \A a \in Addr : fetches'[a] # fetches[a] => a \notin Visited]_vars

\* C16 witness: an address whose fetch failed was linked from two pages or more;
\* it was requested once, and every task for it has returned.
FailureNotRetried ==
    \E a \in Addr :
        /\ a \in Visited
        /\ nodes[a].tag = "err"
        /\ fetches[a] = 1
        /\ Cardinality(TasksFor(a)) >= 2
        /\ \A t \in TasksFor(a) : tasks[t].pc = "done"

\* the tasks spawned for an address by the task that settled that very address
SelfChildren(p) == {u \in TasksFor(p) : Len(u) > 1 /\ Last(Parent(u)) = p}

\* C17: when the children of page p include p, the edge set holds the pair
\* (p, p), the assertion on duplicate edges does not fail, the task spawned for
\* p by p's own task issues no fetch and goes no further than the first check,
\* and the assembled graph has exactly one edge from p's node to itself.
SelfLoopOnce ==
    \A p \in Addr :
        SelfChildren(p) # {} =>
            /\ << p, p >> \in edges
            /\ panicked # "edge"
            /\ \A u \in SelfChildren(p) :
                  /\ tasks[u].pc \in {"start", "done"}
                  /\ ChildTasks(u) = {}
            /\ fetches[p] <= Cardinality(TasksFor(p) \ SelfChildren(p))
            /\ graph.built =>
                  Cardinality({i \in 1 .. Len(graph.edges) :
                                  EdgeAddrs(graph.edges[i]) = << p, p >>}) = 1

\* C17 witness: a page other than the seed links to itself; the crawl ended
\* and the graph has its self-loop, the page having been fetched once.
SelfLoopAssembled ==
    \E p \in Addr \ {Seed} :
        /\ graph.built
        /\ SelfChildren(p) # {}
        /\ \A u \in SelfChildren(p) : tasks[u].pc = "done"
        /\ fetches[p] = 1
        /\ << p, p >> \in edges
        /\ << Seed, p >> \in edges

\* the steps of one task
TaskStep(t) ==
    \/ ReadCheck(t)
    \/ FetchReturn(t, TRUE)
    \/ WriteCheck(t)
    \/ EdgesInsert(t)
    \/ Join(t)

\* the positions at which a task waits: for the read lock, the fetch, the write
\* lock, the edge-set lock, its children
Waiting(t) == tasks[t].pc \in {"start", "fetching", "write_wait", "edges_wait", "joining"}

\* C18: a task that holds the registry write lock or the edge-set lock is not
\* waiting for a fetch, for its children or for the other lock, and no task
\* holds both; and while the crawl runs and some task has not returned, some
\* task can take a step.
NoLockHeldWhileWaiting ==
    /\ \A t \in TaskIds :
          /\ (rw.writer = t \/ mu = t) => ~Waiting(t)
          /\ ~(rw.writer = t /\ mu = t)
    /\ (Running /\ ~AllDone) => \E t \in TaskIds : ENABLED TaskStep(t)

\* C18 witness: a task waits for its children while one of them waits for the
\* edge-set lock, another for the registry write lock and a third for its
\* fetch, and neither lock is held.
ThreeKindsOfWaiting ==
    \E t \in TaskIds : \E u, v, w \in ChildTasks(t) :
        /\ tasks[t].pc = "joining"
        /\ tasks[u].pc = "edges_wait"
        /\ tasks[v].pc = "write_wait"
        /\ tasks[w].pc = "fetching"
        /\ rw.writer = NoTask
        /\ mu = NoTask

====
